---- MODULE Spec2Model ----
(***************************************************************************)
(* A model of AutoPR-AI: the refactoring agent of app.py                   *)
(* (CodeRefactorAgent and the /refactor trigger) and the response cleanup  *)
(* of llmprovider.py.                                                      *)
(*                                                                         *)
(* Text is a sequence of characters, a character being a string.  An       *)
(* Optional[str] is a record [isNone, s].  The line count of a file and    *)
(* its text are kept apart: the text is short, the count is what           *)
(* analyze_for_code_smells compares with min_lines.                        *)
(***************************************************************************)
EXTENDS Integers, Sequences, FiniteSets, TLC

VARIABLES
    url,               \* run -> repo_url given to the agent (app.py:32)
    fs,                \* path -> the directory at that path (the filesystem)
    pc,                \* run -> position of the run in CodeRefactorAgent.run
    raised,            \* run -> an exception is propagating out of run()
    acquire,           \* run -> outcome of clone_repository (app.py:189)
    python_files,      \* run -> result of find_python_files (app.py:190)
    tasks,             \* run -> the paths given to asyncio.gather (app.py:193-197)
    task,              \* run -> path -> state of that process_file coroutine
    refactored_files,  \* run -> the ordered dict built at app.py:200-202
    upd,               \* run -> index of the next item of the loop at app.py:151
    remote,            \* run -> the calls made on the GitHub API, in order
    cleanups,          \* run -> number of calls of cleanup() (app.py:208)
    reads,             \* run -> number of open() calls on repository files
    line_count,        \* path -> number of lines of the file in the repository
    readable,          \* path -> the file can be opened and decoded
    cleanIn,           \* text given to _clean_response
    cleanOut,          \* text it returned
    cleanPc            \* position of the cleanup driver

vars == <<url, fs, pc, raised, acquire, python_files, tasks, task, refactored_files, upd,
          remote, cleanups, reads, line_count, readable, cleanIn, cleanOut, cleanPc>>

runVars == <<url, fs, pc, raised, acquire, python_files, tasks, task, refactored_files,
             upd, remote, cleanups, reads, line_count, readable>>

\* what no step of a run changes
env == <<url, line_count, readable, cleanIn, cleanOut, cleanPc>>

cleanVars == <<cleanIn, cleanOut, cleanPc>>

----------------------------------------------------------------------------
(* Bounds of the model *)

\* number of .py files in the repository
NumFiles == 2

\* number of tokens an input of _clean_response is built from
MaxTokens == 4

----------------------------------------------------------------------------
(* Text: str.strip, str.startswith, str.endswith, slicing *)

RECURSIVE Concat(_)
Concat(ss) == IF ss = <<>> THEN <<>> ELSE Head(ss) \o Concat(Tail(ss))

Whitespace == {" ", "\n"}

RECURSIVE LStrip(_)
LStrip(s) == IF s # <<>> /\ Head(s) \in Whitespace THEN LStrip(Tail(s)) ELSE s

RECURSIVE RStrip(_)
RStrip(s) ==
    IF s # <<>> /\ s[Len(s)] \in Whitespace THEN RStrip(SubSeq(s, 1, Len(s) - 1)) ELSE s

Strip(s) == RStrip(LStrip(s))

StartsWith(s, p) == Len(s) >= Len(p) /\ SubSeq(s, 1, Len(p)) = p

EndsWith(s, p) == Len(s) >= Len(p) /\ SubSeq(s, Len(s) - Len(p) + 1, Len(s)) = p

\* s[n:]
DropFirst(s, n) == IF n >= Len(s) THEN <<>> ELSE SubSeq(s, n + 1, Len(s))

\* s[:-n]
DropLast(s, n) == IF n >= Len(s) THEN <<>> ELSE SubSeq(s, 1, Len(s) - n)

\* the backquote character
BQ == "bq"

FENCE == <<BQ, BQ, BQ>>

PYTHON == <<"p", "y", "t", "h", "o", "n">>

FENCE_PYTHON == FENCE \o PYTHON

\* the literal 9 of refactored_code.strip()[9:]
OpenLen == 9

\* the literal 3 of refactored_code.strip()[:-3]
CloseLen == 3

\* llmprovider.py:33-34
StripOpen(s) == IF StartsWith(Strip(s), FENCE_PYTHON) THEN DropFirst(Strip(s), OpenLen) ELSE s

\* llmprovider.py:35-36
StripClose(s) == IF EndsWith(Strip(s), FENCE) THEN DropLast(Strip(s), CloseLen) ELSE s

\* llmprovider.py:31-37, and the same three statements at app.py:115-119
clean_response(s) == Strip(StripClose(StripOpen(s)))

----------------------------------------------------------------------------
(* The inputs of _clean_response: every concatenation of at most MaxTokens  *)
(* tokens, a token being a fence, the language tag, a blank or a letter.    *)

Tokens == {FENCE, PYTHON, <<" ">>, <<"x">>}

TokenSeqs == UNION {[1..n -> Tokens] : n \in 0..MaxTokens}

CleanInputs == {Concat(ts) : ts \in TokenSeqs}

CleanInit ==
    /\ cleanIn \in CleanInputs
    /\ cleanOut = <<>>
    /\ cleanPc = "start"

\* one call of _clean_response
CleanCall ==
    /\ cleanPc = "start"
    /\ cleanOut' = clean_response(cleanIn)
    /\ cleanPc' = "cleaned"
    /\ UNCHANGED <<cleanIn, runVars>>

\* a second call, on the result of the first
CleanAgain ==
    /\ cleanPc = "cleaned"
    /\ cleanIn' = cleanOut
    /\ cleanOut' = clean_response(cleanOut)
    /\ cleanPc' = "recleaned"
    /\ UNCHANGED runVars

----------------------------------------------------------------------------
(* Values of the workflow *)

\* the threads started by trigger_refactor (app.py:266-267)
Runs == {"A", "B"}

\* relative paths of the .py files of the repository, in os.walk order
Files == 1..NumFiles

FileSeq == [i \in 1..NumFiles |-> i]

\* default of analyze_for_code_smells(file_path, min_lines=50)
min_lines == 50

\* app.py:104
max_retries == 3

None == [isNone |-> TRUE, s |-> <<>>]

Str(s) == [isNone |-> FALSE, s |-> s]

\* Python truthiness of an Optional[str]: None and "" are falsy
Truthy(v) == ~v.isNone /\ v.s # <<>>

\* text of a file of the repository; the first has no trailing newline
Content(f) == IF f = 1 THEN <<"x">> ELSE <<"x", "\n">>

\* what the model answers with in candidates[0].content.parts[0].text
ResponseTexts ==
    { FENCE_PYTHON \o <<"\n", "x", "\n">> \o FENCE,
      <<"y", "\n">>,
      FENCE_PYTHON \o <<"\n">> \o FENCE }

\* a repo_url is the list repo_url.split('/'); a segment is a list of tokens
UrlGit == << <<"https:">>, <<>>, <<"github.com">>, <<"o1">>, <<"repo", ".git">> >>

UrlFork == << <<"https:">>, <<>>, <<"github.com">>, <<"o2">>, <<"repo">> >>

UrlOther == << <<"https:">>, <<>>, <<"github.com">>, <<"o1">>, <<"other">> >>

Urls == {UrlGit, UrlFork, UrlOther}

\* str.replace('.git', '')
RECURSIVE RemoveDotGit(_)
RemoveDotGit(seg) ==
    IF seg = <<>> THEN <<>>
    ELSE IF Head(seg) = ".git" THEN RemoveDotGit(Tail(seg))
         ELSE <<Head(seg)>> \o RemoveDotGit(Tail(seg))

\* app.py:36
repo_name(u) == RemoveDotGit(u[Len(u)])

\* app.py:37
repo_owner(u) == u[Len(u) - 1]

\* clone_path with a directory per owner
clone_path_PerOwner(u) == <<"cwd", repo_owner(u), repo_name(u)>>

\* app.py:38
clone_path(u) == <<"cwd", repo_name(u)>>

Paths == {clone_path(u) : u \in Urls}

Absent == [exists |-> FALSE, owner |-> "none"]

\* a directory left at the path by an earlier run
Stale == [exists |-> TRUE, owner |-> "old"]

Cloned(r) == [exists |-> TRUE, owner |-> r]

NoTask ==
    [st |-> "none", attempt |-> 0, posts |-> 0, sleeps |-> <<>>,
     orig |-> <<>>, ret |-> None, result |-> None]

Terminal == {"finished", "failed"}

path(r) == clone_path(url[r])

----------------------------------------------------------------------------
(* CodeRefactorAgent.run: Acquire *)

Goto(r, l) == pc' = [pc EXCEPT ![r] = l]

\* app.py:266-267: a thread per request, started without a lock or a join
StartThread(r) == Goto(r, "start")

\* trigger_refactor
Trigger(r) ==
    /\ pc[r] = "idle"
    /\ StartThread(r)
    /\ UNCHANGED <<env, fs, raised, acquire, python_files, tasks, task,
                   refactored_files, upd, remote, cleanups, reads>>

\* Raise without the finally block: the exception leaves run() at once
Raise_NoFinally(r) ==
    /\ Goto(r, "failed")
    /\ raised' = [raised EXCEPT ![r] = TRUE]

\* app.py:188,207-208: an exception inside the try block runs the finally block
Raise(r) ==
    /\ Goto(r, "cleanup")
    /\ raised' = [raised EXCEPT ![r] = TRUE]

\* app.py:43: nothing at clone_path
AcquireFresh(r) ==
    /\ pc[r] = "start"
    /\ ~fs[path(r)].exists
    /\ Goto(r, "clone")
    /\ UNCHANGED <<env, fs, raised, acquire, python_files, tasks, task,
                   refactored_files, upd, remote, cleanups, reads>>

\* app.py:43-45: a directory at clone_path is removed
RemoveStale(r) ==
    /\ pc[r] = "start"
    /\ fs[path(r)].exists
    /\ fs' = [fs EXCEPT ![path(r)] = Absent]
    /\ Goto(r, "clone")
    /\ UNCHANGED <<env, raised, acquire, python_files, tasks, task,
                   refactored_files, upd, remote, cleanups, reads>>

\* app.py:45: shutil.rmtree raises OSError, which clone_repository does not catch
RemoveStaleFails(r) ==
    /\ pc[r] = "start"
    /\ fs[path(r)].exists
    /\ acquire' = [acquire EXCEPT ![r] = "failed"]
    /\ Raise(r)
    /\ UNCHANGED <<env, fs, python_files, tasks, task,
                   refactored_files, upd, remote, cleanups, reads>>

\* app.py:49-50: git clone into a path that is not there
CloneOk(r) ==
    /\ pc[r] = "clone"
    /\ ~fs[path(r)].exists
    /\ fs' = [fs EXCEPT ![path(r)] = Cloned(r)]
    /\ acquire' = [acquire EXCEPT ![r] = "ok"]
    /\ Goto(r, "discover")
    /\ UNCHANGED <<env, raised, python_files, tasks, task,
                   refactored_files, upd, remote, cleanups, reads>>

\* OnCloneError without the raise: the error is only logged
OnCloneError_Swallowed(r) ==
    /\ Goto(r, "discover")
    /\ UNCHANGED raised

\* app.py:51-53: the error is logged and raised again
OnCloneError(r) == Raise(r)

\* app.py:49: git clone exits non-zero (it always does on a non-empty directory)
CloneFails(r) ==
    /\ pc[r] = "clone"
    /\ acquire' = [acquire EXCEPT ![r] = "failed"]
    /\ OnCloneError(r)
    /\ UNCHANGED <<env, fs, python_files, tasks, task,
                   refactored_files, upd, remote, cleanups, reads>>

----------------------------------------------------------------------------
(* Discover and Filter *)

\* app.py:55-65: os.walk of a path that is not there yields nothing
find_python_files(r) == IF fs[path(r)].exists THEN FileSeq ELSE <<>>

Discover(r) ==
    /\ pc[r] = "discover"
    /\ python_files' = [python_files EXCEPT ![r] = find_python_files(r)]
    /\ Goto(r, "filter")
    /\ UNCHANGED <<env, fs, raised, acquire, tasks, task,
                   refactored_files, upd, remote, cleanups, reads>>

\* app.py:67-79
analyze_for_code_smells(r, f) ==
    /\ fs[path(r)].exists
    /\ readable[f]
    /\ line_count[f] > min_lines

RECURSIVE Flagged(_, _)
Flagged(r, fl) ==
    IF fl = <<>> THEN <<>>
    ELSE (IF analyze_for_code_smells(r, Head(fl)) THEN <<Head(fl)>> ELSE <<>>)
         \o Flagged(r, Tail(fl))

InSeq(x, sq) == \E i \in 1..Len(sq) : sq[i] = x

\* app.py:193-197
Filter(r) ==
    /\ pc[r] = "filter"
    /\ tasks' = [tasks EXCEPT ![r] = Flagged(r, python_files[r])]
    /\ task' = [task EXCEPT ![r] =
                  [f \in Files |->
                     IF InSeq(f, Flagged(r, python_files[r]))
                     THEN [NoTask EXCEPT !.st = "created"] ELSE NoTask]]
    /\ reads' = [reads EXCEPT ![r] = @ + Len(python_files[r])]
    /\ Goto(r, "gather")
    /\ UNCHANGED <<env, fs, raised, acquire, python_files,
                   refactored_files, upd, remote, cleanups>>

----------------------------------------------------------------------------
(* Dispatch: process_file and refactor_file_content, one task per flagged file *)

RECURSIVE Pow2(_)
Pow2(n) == IF n = 0 THEN 1 ELSE 2 * Pow2(n - 1)

\* process_result without the comparison with the original
process_result_Unconditional(orig, refactored) == Str(refactored)

\* app.py:219-224
process_result(orig, refactored) == IF refactored # orig THEN Str(refactored) ELSE None

\* refactor_file_content returns content; process_file returns its pair
Returned(t, content) ==
    [t EXCEPT !.st = "done", !.ret = Str(content),
              !.result = process_result(t.orig, content)]

\* EndOfAttempt with a loop that is one iteration short
EndOfAttempt_OneShort(t) ==
    IF t.attempt + 2 < max_retries
    THEN [t EXCEPT !.attempt = @ + 1, !.st = "posting", !.posts = @ + 1]
    ELSE Returned([t EXCEPT !.attempt = @ + 1], t.orig)

\* app.py:105,127-128: the next iteration of the loop, or the return after it
EndOfAttempt(t) ==
    IF t.attempt + 1 < max_retries
    THEN [t EXCEPT !.attempt = @ + 1, !.st = "posting", !.posts = @ + 1]
    ELSE Returned([t EXCEPT !.attempt = @ + 1], t.orig)

TaskStep(r, f, st) ==
    /\ pc[r] = "gather"
    /\ task[r][f].st = st
    /\ UNCHANGED <<env, fs, acquire, python_files, tasks,
                   refactored_files, upd, remote, cleanups>>

\* app.py:214-217,107-108: the file is read and the first POST is issued
TaskOpen(r, f) ==
    /\ TaskStep(r, f, "created")
    /\ fs[path(r)].exists
    /\ readable[f]
    /\ task' = [task EXCEPT ![r][f] =
                  [@ EXCEPT !.st = "posting", !.orig = Content(f), !.posts = 1]]
    /\ reads' = [reads EXCEPT ![r] = @ + 1]
    /\ UNCHANGED <<pc, raised>>

\* OnProcessError without the except clause: the exception leaves gather
OnProcessError_Reraise(r, f) ==
    /\ task' = [task EXCEPT ![r][f] = [@ EXCEPT !.st = "done", !.result = None]]
    /\ Raise(r)

\* app.py:226-228
OnProcessError(r, f) ==
    /\ task' = [task EXCEPT ![r][f] = [@ EXCEPT !.st = "done", !.result = None]]
    /\ UNCHANGED <<pc, raised>>

\* app.py:214: open() or read() raises
TaskOpenFails(r, f) ==
    /\ TaskStep(r, f, "created")
    /\ reads' = [reads EXCEPT ![r] = @ + 1]
    /\ OnProcessError(r, f)

\* app.py:109-119: status 200 with a candidate
Post200(r, f) ==
    /\ TaskStep(r, f, "posting")
    /\ \E text \in ResponseTexts :
         task' = [task EXCEPT ![r][f] = Returned(@, clean_response(text))]
    /\ UNCHANGED <<pc, raised, reads>>

\* app.py:111-113: status 200 without candidates
PostNoCandidates(r, f) ==
    /\ TaskStep(r, f, "posting")
    /\ task' = [task EXCEPT ![r][f] = Returned(@, @.orig)]
    /\ UNCHANGED <<pc, raised, reads>>

\* app.py:120-122: any other status is logged; the loop goes on at once
PostNon200(r, f) ==
    /\ TaskStep(r, f, "posting")
    /\ task' = [task EXCEPT ![r][f] = EndOfAttempt(@)]
    /\ UNCHANGED <<pc, raised, reads>>

\* app.py:123-125: an exception (transport, malformed body) is logged, then
\* asyncio.sleep(2 ** attempt)
PostException(r, f) ==
    /\ TaskStep(r, f, "posting")
    /\ task' = [task EXCEPT ![r][f] =
                  [@ EXCEPT !.st = "sleeping",
                            !.sleeps = Append(@, Pow2(task[r][f].attempt))]]
    /\ UNCHANGED <<pc, raised, reads>>

\* app.py:125: the sleep ends
SleepDone(r, f) ==
    /\ TaskStep(r, f, "sleeping")
    /\ task' = [task EXCEPT ![r][f] = EndOfAttempt(@)]
    /\ UNCHANGED <<pc, raised, reads>>

----------------------------------------------------------------------------
(* Collect *)

\* app.py:199: asyncio.gather returns when every task has returned
GatherDone(r) == \A i \in 1..Len(tasks[r]) : task[r][tasks[r][i]].st = "done"

\* app.py:200-202
RECURSIVE Collected(_, _)
Collected(r, fl) ==
    IF fl = <<>> THEN <<>>
    ELSE (IF Truthy(task[r][Head(fl)].result)
          THEN << [path |-> Head(fl), content |-> task[r][Head(fl)].result.s] >>
          ELSE <<>>)
         \o Collected(r, Tail(fl))

\* app.py:204 and app.py:132-134
ShouldPublish(batch) == batch # <<>>

Collect(r) ==
    /\ pc[r] = "gather"
    /\ GatherDone(r)
    /\ refactored_files' = [refactored_files EXCEPT ![r] = Collected(r, tasks[r])]
    /\ Goto(r, "collected")
    /\ UNCHANGED <<env, fs, raised, acquire, python_files, tasks, task,
                   upd, remote, cleanups, reads>>

\* app.py:204-205: from here on the coroutines and the list gather returned are
\* not used any more, only refactored_files is
PublishOrSkip(r) ==
    /\ pc[r] = "collected"
    /\ Goto(r, IF ShouldPublish(refactored_files[r]) THEN "get_repo" ELSE "cleanup")
    /\ task' = [task EXCEPT ![r] = [f \in Files |-> NoTask]]
    /\ UNCHANGED <<env, fs, raised, acquire, python_files, tasks,
                   refactored_files, upd, remote, cleanups, reads>>

----------------------------------------------------------------------------
(* Publish: create_pull_request *)

Call(r, op, arg, outcome) ==
    remote' = [remote EXCEPT ![r] = Append(@, [op |-> op, arg |-> arg, outcome |-> outcome])]

PublishStep(r, at) ==
    /\ pc[r] = at
    /\ UNCHANGED <<env, fs, raised, acquire, python_files, tasks, task,
                   refactored_files, cleanups, reads>>

\* app.py:172-175: the error is logged; create_pull_request returns
OnPublishError(r) == Goto(r, "cleanup")

\* app.py:145-146: status 404 is not raised again
OnRefNotFound(r) == Goto(r, "create_git_ref")

\* app.py:137
GetRepo(r) ==
    /\ PublishStep(r, "get_repo")
    /\ UNCHANGED upd
    /\ \/ Call(r, "get_repo", 0, "ok") /\ Goto(r, "get_branch")
       \/ Call(r, "get_repo", 0, "error") /\ OnPublishError(r)

\* app.py:138
GetBranch(r) ==
    /\ PublishStep(r, "get_branch")
    /\ UNCHANGED upd
    /\ \/ Call(r, "get_branch", 0, "ok") /\ Goto(r, "get_git_ref")
       \/ Call(r, "get_branch", 0, "error") /\ OnPublishError(r)

\* app.py:142,145-146
GetGitRef(r) ==
    /\ PublishStep(r, "get_git_ref")
    /\ UNCHANGED upd
    /\ \/ Call(r, "get_git_ref", 0, "ok") /\ Goto(r, "ref_delete")
       \/ Call(r, "get_git_ref", 0, "not_found") /\ OnRefNotFound(r)
       \/ Call(r, "get_git_ref", 0, "error") /\ OnPublishError(r)

\* app.py:143,145-146
RefDelete(r) ==
    /\ PublishStep(r, "ref_delete")
    /\ UNCHANGED upd
    /\ \/ Call(r, "ref_delete", 0, "ok") /\ Goto(r, "create_git_ref")
       \/ Call(r, "ref_delete", 0, "not_found") /\ OnRefNotFound(r)
       \/ Call(r, "ref_delete", 0, "error") /\ OnPublishError(r)

\* app.py:148,151
CreateGitRef(r) ==
    /\ PublishStep(r, "create_git_ref")
    /\ \/ /\ Call(r, "create_git_ref", 0, "ok")
          /\ upd' = [upd EXCEPT ![r] = 1]
          /\ Goto(r, "get_contents")
       \/ /\ Call(r, "create_git_ref", 0, "error")
          /\ UNCHANGED upd
          /\ OnPublishError(r)

\* app.py:156
GetContents(r) ==
    /\ PublishStep(r, "get_contents")
    /\ UNCHANGED upd
    /\ LET p == refactored_files[r][upd[r]].path IN
         \/ Call(r, "get_contents", p, "ok") /\ Goto(r, "update_file")
         \/ Call(r, "get_contents", p, "error") /\ OnPublishError(r)

\* AfterUpdate with create_pull inside the loop
AfterUpdate_PullInsideLoop(r) == UNCHANGED upd /\ Goto(r, "create_pull")

\* app.py:151: the next item of the loop, or the statement after it
AfterUpdate(r) ==
    IF upd[r] < Len(refactored_files[r])
    THEN upd' = [upd EXCEPT ![r] = @ + 1] /\ Goto(r, "get_contents")
    ELSE UNCHANGED upd /\ Goto(r, "create_pull")

\* app.py:152-158
UpdateFile(r) ==
    /\ PublishStep(r, "update_file")
    /\ LET p == refactored_files[r][upd[r]].path IN
         \/ Call(r, "update_file", p, "ok") /\ AfterUpdate(r)
         \/ Call(r, "update_file", p, "error") /\ UNCHANGED upd /\ OnPublishError(r)

\* app.py:169-170
CreatePull(r) ==
    /\ PublishStep(r, "create_pull")
    /\ UNCHANGED upd
    /\ \/ Call(r, "create_pull", 0, "ok") /\ Goto(r, "cleanup")
       \/ Call(r, "create_pull", 0, "error") /\ OnPublishError(r)

----------------------------------------------------------------------------
(* Cleanup *)

\* run() returns, or the exception leaves it
Leave(r) == Goto(r, IF raised[r] THEN "failed" ELSE "finished")

CleanupStep(r) ==
    /\ pc[r] = "cleanup"
    /\ cleanups' = [cleanups EXCEPT ![r] = @ + 1]
    /\ Leave(r)
    /\ UNCHANGED <<env, raised, acquire, python_files, tasks, task,
                   refactored_files, upd, remote, reads>>

\* app.py:179: nothing at clone_path
CleanupNothing(r) ==
    /\ CleanupStep(r)
    /\ ~fs[path(r)].exists
    /\ UNCHANGED fs

\* app.py:179-182
CleanupRemoves(r) ==
    /\ CleanupStep(r)
    /\ fs[path(r)].exists
    /\ fs' = [fs EXCEPT ![path(r)] = Absent]

\* app.py:183-184: shutil.rmtree raises OSError, which is logged
CleanupFails(r) ==
    /\ CleanupStep(r)
    /\ fs[path(r)].exists
    /\ UNCHANGED fs

----------------------------------------------------------------------------
(* Specifications *)

RunStep(r) ==
    \/ Trigger(r)
    \/ AcquireFresh(r)
    \/ RemoveStale(r)
    \/ RemoveStaleFails(r)
    \/ CloneOk(r)
    \/ CloneFails(r)
    \/ Discover(r)
    \/ Filter(r)
    \/ \E f \in Files : TaskOpen(r, f)
    \/ \E f \in Files : TaskOpenFails(r, f)
    \/ \E f \in Files : Post200(r, f)
    \/ \E f \in Files : PostNoCandidates(r, f)
    \/ \E f \in Files : PostNon200(r, f)
    \/ \E f \in Files : PostException(r, f)
    \/ \E f \in Files : SleepDone(r, f)
    \/ Collect(r)
    \/ PublishOrSkip(r)
    \/ GetRepo(r)
    \/ GetBranch(r)
    \/ GetGitRef(r)
    \/ RefDelete(r)
    \/ CreateGitRef(r)
    \/ GetContents(r)
    \/ UpdateFile(r)
    \/ CreatePull(r)
    \/ CleanupNothing(r)
    \/ CleanupRemoves(r)
    \/ CleanupFails(r)

RunInit ==
    /\ pc = [r \in Runs |-> "idle"]
    /\ raised = [r \in Runs |-> FALSE]
    /\ acquire = [r \in Runs |-> "pending"]
    /\ python_files = [r \in Runs |-> <<>>]
    /\ tasks = [r \in Runs |-> <<>>]
    /\ task = [r \in Runs |-> [f \in Files |-> NoTask]]
    /\ refactored_files = [r \in Runs |-> <<>>]
    /\ upd = [r \in Runs |-> 0]
    /\ remote = [r \in Runs |-> <<>>]
    /\ cleanups = [r \in Runs |-> 0]
    /\ reads = [r \in Runs |-> 0]

CleanIdle ==
    /\ cleanIn = <<>>
    /\ cleanOut = <<>>
    /\ cleanPc = "idle"

\* one run, on any repository, with or without a directory left at its path
Init ==
    /\ RunInit
    /\ CleanIdle
    /\ url = [r \in Runs |-> UrlGit]
    /\ fs \in [Paths -> {Absent, Stale}]
    /\ \A p \in Paths : p # clone_path(UrlGit) => fs[p] = Absent
    /\ line_count \in [Files -> {min_lines, min_lines + 1}]
    /\ readable \in [Files -> BOOLEAN]

Next == RunStep("A")

Spec == Init /\ [][Next]_vars

\* two requests, the second for any of the URLs; the first file is long
InitRace ==
    /\ RunInit
    /\ CleanIdle
    /\ url \in [Runs -> Urls]
    /\ url["A"] = UrlGit
    /\ fs = [p \in Paths |-> Absent]
    /\ line_count = [f \in Files |-> IF f = 1 THEN min_lines + 1 ELSE min_lines]
    /\ readable = [f \in Files |-> TRUE]

NextRace == \E r \in Runs : RunStep(r)

SpecRace == InitRace /\ [][NextRace]_vars

\* _clean_response alone, on every input
InitClean ==
    /\ RunInit
    /\ CleanInit
    /\ url = [r \in Runs |-> UrlGit]
    /\ fs = [p \in Paths |-> Absent]
    /\ line_count = [f \in Files |-> min_lines]
    /\ readable = [f \in Files |-> TRUE]

NextClean == CleanCall \/ CleanAgain

SpecClean == InitClean /\ [][NextClean]_vars

----------------------------------------------------------------------------
(* Helpers of the properties *)

\* positions of run() before the statement after asyncio.gather
BeforeCollect == {"idle", "start", "clone", "discover", "filter", "gather"}

InBatch(r, f) == \E i \in 1..Len(refactored_files[r]) : refactored_files[r][i].path = f

IsTask(r, f) == InSeq(f, tasks[r])

\* every POST the task issued has failed
AllPostsFailed(t) == t.posts > 0 /\ t.posts = t.attempt

Last(sq) == sq[Len(sq)]

----------------------------------------------------------------------------
(* C1 *)

\* C1: in every execution of run, cleanup() is called exactly once, and as the
\* last step: a run that has ended has called it once, a run that has not
\* ended has not called it yet, on every exit path.
C1_CleanupOnceAndLast ==
    \A r \in Runs :
        /\ pc[r] \in Terminal => cleanups[r] = 1
        /\ pc[r] \notin Terminal => cleanups[r] = 0

\* a run whose publish step failed has ended, after one cleanup
C1_Witness ==
    /\ pc["A"] = "finished"
    /\ cleanups["A"] = 1
    /\ remote["A"] # <<>>
    /\ Last(remote["A"]).op = "update_file"
    /\ Last(remote["A"]).outcome = "error"

----------------------------------------------------------------------------
(* C2 *)

\* C2: a flagged file whose every POST fails (non-200 or exception, in any mix)
\* gets exactly 3 POSTs; refactor_file_content then returns the original
\* content, process_file returns None for it, and it is not in the batch.
C2_ThreeAttemptsThenOriginal ==
    \A r \in Runs : \A f \in Files :
        LET t == task[r][f] IN
        /\ AllPostsFailed(t) => t.posts <= 3
        /\ (t.st = "done" /\ AllPostsFailed(t)) =>
              /\ t.posts = 3
              /\ t.ret = Str(t.orig)
              /\ t.result = None
              /\ ~InBatch(r, f)

\* three failed POSTs, one of them an exception and the others non-200
C2_Witness ==
    \E f \in Files :
        LET t == task["A"][f] IN
        /\ pc["A"] = "collected"
        /\ t.st = "done"
        /\ AllPostsFailed(t)
        /\ t.sleeps = <<2>>
        /\ t.ret = Str(Content(f))

----------------------------------------------------------------------------
(* C3 *)

\* the delays 2^0 .. 2^(n-1)
Backoff(n) == [i \in 1..n |-> Pow2(i - 1)]

\* C3: after failed attempt a, of either kind, the caller sleeps 2^a before the
\* next attempt starts, and does not sleep when there is no next attempt: a
\* task about to POST for the (a+1)-th time has slept 1, 2, .., 2^(a-1), and a
\* task that gave up after 3 failed attempts has slept 1, 2.
C3_BackoffAfterEveryFailure ==
    \A r \in Runs : \A f \in Files :
        LET t == task[r][f] IN
        /\ t.st = "posting" => t.sleeps = Backoff(t.attempt)
        /\ (t.st = "done" /\ AllPostsFailed(t)) => t.sleeps = Backoff(2)

----------------------------------------------------------------------------
(* C4 *)

\* C4: after Collect the batch holds path -> content exactly when the file was
\* flagged and its refactor call returned a content that is not None and
\* differs from the original, the empty string included; and every entry
\* differs from the original content of its file.
C4_BatchIffChanged ==
    \A r \in Runs :
        pc[r] = "collected" =>
            /\ \A f \in Files :
                  InBatch(r, f) <=>
                     /\ IsTask(r, f)
                     /\ ~task[r][f].ret.isNone
                     /\ task[r][f].ret.s # task[r][f].orig
            /\ \A i \in 1..Len(refactored_files[r]) :
                  LET e == refactored_files[r][i] IN
                  /\ e.content = task[r][e.path].ret.s
                  /\ e.content # Content(e.path)

----------------------------------------------------------------------------
(* C5 *)

\* C5: response cleanup is idempotent: cleaning the result of a cleanup
\* returns it unchanged, for every input.
C5_CleanIdempotent == cleanPc = "recleaned" => cleanOut = cleanIn

----------------------------------------------------------------------------
(* C6 *)

\* C6: when every flagged file's refactor call returned the original content
\* (or no file was flagged), the batch is empty; and with an empty batch the
\* publish step is skipped, no call is made on the remote, and the run ends
\* without error.
C6_NothingChangedNothingPublished ==
    \A r \in Runs :
        /\ ( /\ pc[r] = "collected"
             /\ \A f \in Files : IsTask(r, f) => task[r][f].ret = Str(Content(f)) )
           => refactored_files[r] = <<>>
        /\ (pc[r] \notin BeforeCollect /\ acquire[r] = "ok" /\ refactored_files[r] = <<>>)
           =>
           /\ remote[r] = <<>>
           /\ ~raised[r]
           /\ pc[r] \in {"collected", "cleanup", "finished"}

\* a flagged file was answered with its own content inside a fence
C6_Witness ==
    /\ pc["A"] = "collected"
    /\ tasks["A"] # <<>>
    /\ \A f \in Files : IsTask("A", f) => task["A"][f].ret = Str(Content(f))
    /\ \E f \in Files : IsTask("A", f) /\ task["A"][f].posts = 1

----------------------------------------------------------------------------
(* C7 *)

\* C7: when clone_repository raises, nothing after it is executed: no file is
\* discovered or read, no task is created, no POST is issued, nothing is
\* collected, no call is made on the remote; the exception leaves run() after
\* cleanup().
C7_AcquireFailureAborts ==
    \A r \in Runs :
        acquire[r] = "failed" =>
            /\ python_files[r] = <<>>
            /\ tasks[r] = <<>>
            /\ reads[r] = 0
            /\ \A f \in Files : task[r][f] = NoTask
            /\ refactored_files[r] = <<>>
            /\ remote[r] = <<>>
            /\ raised[r]
            /\ pc[r] \in {"cleanup", "failed"}
            /\ pc[r] = "failed" => cleanups[r] = 1

\* git clone failed and the run has ended
C7_Witness ==
    /\ acquire["A"] = "failed"
    /\ pc["A"] = "failed"
    /\ ~fs[path("A")].exists
    /\ cleanups["A"] = 1

----------------------------------------------------------------------------
(* C8 *)

C8_Barrier ==
    \A r \in Runs : \A f \in Files :
        LET t == task[r][f] IN
        /\ (pc[r] = "collected" /\ IsTask(r, f)) => t.st = "done"
        /\ (t.st = "done" /\ (t.ret.isNone \/ AllPostsFailed(t))) => t.result = None

C8_Isolated ==
    \A r \in Runs :
        /\ \A f \in Files :
              (pc[r] = "gather" /\ task'[r][f] # task[r][f]) =>
                  /\ \A g \in Files \ {f} : task'[r][g] = task[r][g]
                  /\ pc'[r] = pc[r]
                  /\ raised'[r] = raised[r]
        /\ (pc[r] = "gather" /\ pc'[r] # pc[r]) =>
              /\ \A f \in Files : IsTask(r, f) => task[r][f].st = "done"
              /\ pc'[r] = "collected"
              /\ ~raised'[r]

\* C8: Collect starts only after every dispatched task has finished; a task
\* that fails (unreadable file, provider failure after the retries, exception
\* while processing) yields None for its own file, and its step neither ends
\* the gather, nor raises, nor changes any sibling task.
C8_BarrierWithIsolatedFailures == []C8_Barrier /\ [][C8_Isolated]_vars

\* one task failed to read its file, a sibling's change is in the batch
C8_Witness ==
    \E f, g \in Files :
        /\ pc["A"] = "collected"
        /\ task["A"][f].st = "done"
        /\ task["A"][f].posts = 0
        /\ task["A"][f].result = None
        /\ g # f
        /\ Truthy(task["A"][g].result)
        /\ InBatch("A", g)

----------------------------------------------------------------------------
(* C9 *)

RECURSIVE UpdatePlan(_)
UpdatePlan(batch) ==
    IF batch = <<>> THEN <<>>
    ELSE << <<"get_contents", Head(batch).path>>, <<"update_file", Head(batch).path>> >>
         \o UpdatePlan(Tail(batch))

\* the calls of a publish step in which nothing fails
Plan(batch, del) ==
    << <<"get_repo", 0>>, <<"get_branch", 0>>, <<"get_git_ref", 0>> >>
    \o (IF del THEN << <<"ref_delete", 0>> >> ELSE <<>>)
    \o << <<"create_git_ref", 0>> >>
    \o UpdatePlan(batch)
    \o << <<"create_pull", 0>> >>

Calls(r) == [i \in 1..Len(remote[r]) |-> <<remote[r][i].op, remote[r][i].arg>>]

IsPrefix(a, b) == Len(a) <= Len(b) /\ a = SubSeq(b, 1, Len(a))

\* C9: the calls on the remote are, in order: delete the ref if it exists (not
\* found counts as success), create the ref, update every file of the batch,
\* open the pull request.  The pull request is opened only after every file of
\* the batch was updated, at most once, and nothing is called after the first
\* call that failed.
C9_PublishOrder ==
    \A r \in Runs :
        LET L == remote[r]
            B == refactored_files[r]
        IN
        /\ \E del \in BOOLEAN : IsPrefix(Calls(r), Plan(B, del))
        /\ \A i \in 1..Len(L) :
              /\ L[i].outcome = "error" => i = Len(L)
              /\ L[i].op = "ref_delete" =>
                    i > 1 /\ L[i - 1].op = "get_git_ref" /\ L[i - 1].outcome = "ok"
              /\ L[i].op = "create_git_ref" =>
                    /\ i > 1
                    /\ \/ L[i - 1].op = "get_git_ref" /\ L[i - 1].outcome = "not_found"
                       \/ L[i - 1].op = "ref_delete" /\ L[i - 1].outcome \in {"ok", "not_found"}
              /\ L[i].op = "create_pull" =>
                    \A j \in 1..Len(B) :
                        \E k \in 1..(i - 1) :
                            L[k] = [op |-> "update_file", arg |-> B[j].path, outcome |-> "ok"]
        /\ Cardinality({i \in 1..Len(L) : L[i].op = "create_pull"}) <= 1
        /\ (pc[r] \in Terminal /\ L # <<>> /\ Last(L).outcome # "error") =>
              Last(L).op = "create_pull"

\* a batch of two files was published on a branch that existed
C9_Witness ==
    /\ pc["A"] = "finished"
    /\ Len(refactored_files["A"]) >= 2
    /\ Last(remote["A"]) = [op |-> "create_pull", arg |-> 0, outcome |-> "ok"]
    /\ \E i \in 1..Len(remote["A"]) : remote["A"][i].op = "ref_delete"

----------------------------------------------------------------------------
(* C10 *)

InFlight(r) == pc[r] \in {"discover", "filter", "gather"}

\* C10: two requests for the same repository name share one working-copy path
\* and are not serialized: a request's thread can always be started, whatever
\* the other run is doing, and a run between its Acquire and its Cleanup finds
\* its working copy missing or foreign only when another run on the same path
\* has started.
C10_SharedPathNotSerialized ==
    \A r, q \in Runs :
        /\ repo_name(url[r]) = repo_name(url[q]) => path(r) = path(q)
        /\ pc[r] = "idle" => ENABLED Trigger(r)
        /\ (InFlight(r) /\ fs[path(r)] # Cloned(r)) =>
              \E o \in Runs \ {r} : path(o) = path(r) /\ pc[o] # "idle"

\* a run has cloned and is about to read a flagged file, and the directory at
\* its path is the clone of the other run, which removed the first
C10_Witness ==
    \E r, q \in Runs : \E f \in Files :
        /\ r # q
        /\ acquire[r] = "ok"
        /\ pc[r] = "gather"
        /\ task[r][f].st = "created"
        /\ fs[path(r)] = Cloned(q)
        /\ InFlight(q)

====
